---- MODULE Spec2Model ----
(***************************************************************************)
(* Model of spotify-playlist-sync (package sps): the style/year pipeline   *)
(* (syncSpotifyPlaylist: discovery producer + resolve/append consumer      *)
(* goroutine over an unbuffered channel) and the file mode                 *)
(* (addBandsFromFileToPlaylist).                                            *)
(*                                                                         *)
(* Strings are sequences of one-character strings, so that suffix,         *)
(* substring, split and the title regular expression are computed as the   *)
(* Go library computes them.                                               *)
(***************************************************************************)
EXTENDS Integers, Sequences, FiniteSets, TLC

(***************************************************************************)
(* Bounds of the model                                                     *)
(***************************************************************************)
\* catalog results received in one run, over all pages
MaxResults == 3
\* bands in the file
MaxBands == 2

(***************************************************************************)
(* String helpers (Go strings package, as used by the program)             *)
(***************************************************************************)
HasSuffixMut(s, suffix) ==
    Len(suffix) <= Len(s) /\ SubSeq(s, 1, Len(suffix)) = suffix

\* strings.HasSuffix
HasSuffix(s, suffix) ==
    Len(suffix) <= Len(s) /\ SubSeq(s, Len(s) - Len(suffix) + 1, Len(s)) = suffix

\* strings.HasPrefix
HasPrefix(s, prefix) ==
    Len(prefix) <= Len(s) /\ SubSeq(s, 1, Len(prefix)) = prefix

\* strings.Contains: the empty substring is contained in every string
Contains(s, substr) ==
    \E i \in 1..(Len(s) - Len(substr) + 1) : SubSeq(s, i, i + Len(substr) - 1) = substr

\* index of the first occurrence of sep in s at or after position i, 0 if none
RECURSIVE IndexFrom(_, _, _)
IndexFrom(s, sep, i) ==
    IF i + Len(sep) - 1 > Len(s) THEN 0
    ELSE IF SubSeq(s, i, i + Len(sep) - 1) = sep THEN i
    ELSE IndexFrom(s, sep, i + 1)

\* strings.Split with a non-empty separator: always at least one element
RECURSIVE Split(_, _)
Split(s, sep) ==
    LET k == IndexFrom(s, sep, 1)
    IN  IF k = 0 THEN <<s>>
        ELSE <<SubSeq(s, 1, k - 1)>> \o Split(SubSeq(s, k + Len(sep), Len(s)), sep)

Digits == {"0", "1", "2", "3", "4", "5", "6", "7", "8", "9"}
Spaces == {" "}

\* length of the run of digits of s starting at position i
RECURSIVE DigitRun(_, _)
DigitRun(s, i) ==
    IF i <= Len(s) /\ s[i] \in Digits THEN 1 + DigitRun(s, i + 1) ELSE 0

\* length of the match of \s\(\d+\) at position i of s, 0 if it does not match
MatchLen(s, i) ==
    IF i + 1 <= Len(s) /\ s[i] \in Spaces /\ s[i + 1] = "("
    THEN LET d == DigitRun(s, i + 2)
         IN  IF d >= 1 /\ i + 2 + d <= Len(s) /\ s[i + 2 + d] = ")"
             THEN d + 3 ELSE 0
    ELSE 0

\* rx.ReplaceAllString(title, ""): one left-to-right pass over the
\* non-overlapping matches
RECURSIVE StripFrom(_, _)
StripFrom(s, i) ==
    IF i > Len(s) THEN <<>>
    ELSE LET m == MatchLen(s, i)
         IN  IF m > 0 THEN StripFrom(s, i + m)
             ELSE <<s[i]>> \o StripFrom(s, i + 1)

NormalizeTitle(t) == StripFrom(t, 1)

\* strconv.Itoa for the non-negative years of the model
DigitChar(d) == CASE d = 0 -> "0" [] d = 1 -> "1" [] d = 2 -> "2" [] d = 3 -> "3"
                  [] d = 4 -> "4" [] d = 5 -> "5" [] d = 6 -> "6" [] d = 7 -> "7"
                  [] d = 8 -> "8" [] OTHER -> "9"
RECURSIVE Itoa(_)
Itoa(n) == IF n < 10 THEN <<DigitChar(n)>> ELSE Itoa(n \div 10) \o <<DigitChar(n % 10)>>

Min2(a, b) == IF a < b THEN a ELSE b
Max2(a, b) == IF a > b THEN a ELSE b

\* Levenshtein distance with unit costs, case sensitive (metrics.NewLevenshtein)
RECURSIVE Lev(_, _, _, _)
Lev(a, b, i, j) ==
    IF i = 0 THEN j
    ELSE IF j = 0 THEN i
    ELSE Min2(Min2(Lev(a, b, i - 1, j) + 1, Lev(a, b, i, j - 1) + 1),
              Lev(a, b, i - 1, j - 1) + (IF a[i] = b[j] THEN 0 ELSE 1))

\* strutil.Similarity(str1, str2, Levenshtein) > 0.8, i.e.
\* 1 - distance/maxLen > 0.8; two empty strings have similarity 1
areStringsSimilar(str1, str2) ==
    LET maxLen == Max2(Len(str1), Len(str2))
    IN  IF maxLen = 0 THEN TRUE
        ELSE 5 * (maxLen - Lev(str1, str2, Len(str1), Len(str2))) > 4 * maxLen

(***************************************************************************)
(* Data of the model                                                       *)
(***************************************************************************)
URIs == {"u1", "u2"}

\* SpotifyAlbumResponse.Tracks.Items, as the list of their URIs
TrackLists == {<<>>, <<"u1">>, <<"u2">>, <<"u1", "u2">>}


\* the -s and -y flags of a run
StyleArg == <<"d">>
YearArg == <<"2", "2">>

\* values of the -E flag: omitted, one style, two styles
ExcludeFlags == {<<>>, <<"s">>, <<"s", ",", "x">>}

\* DiscogsMasterResponse.Year by master_url
MasterYearOf(masterURL) == IF masterURL = "m1" THEN 22 ELSE 21

Rel(title, artist, style, have, format, masterURL) ==
    [Title |-> title, Artist |-> artist, Style |-> style, Have |-> have,
     Format |-> format, MasterURL |-> masterURL]

\* DiscogsSearchResult values seen by the pipeline
Releases ==
    { Rel(<<"a", " ", "-", " ", "b">>, <<"a">>, << <<"d">> >>, 15, <<"Album">>, ""),
      Rel(<<"a", " ", "(", "2", ")", " ", "-", " ", "b">>, <<"a">>,
          << <<"y">>, <<"x", "d">> >>, 10, <<"Album">>, "m1"),
      Rel(<<"c", " ", "-", " ", "d">>, <<"c">>, << <<"d">>, <<"y">> >>, 15, <<"Album">>, ""),
      Rel(<<"e", " ", "-", " ", "f">>, <<"e">>, << <<"d">>, <<"y", "s">> >>, 15, <<"Album">>, "") }

RECURSIVE SeqsUpTo(_, _)
SeqsUpTo(S, n) ==
    IF n = 0 THEN {<<>>}
    ELSE LET shorter == SeqsUpTo(S, n - 1)
         IN  shorter \cup {Append(q, x) : q \in {p \in shorter : Len(p) = n - 1}, x \in S}

\* DiscogsSearchResponse.Results of one page of at most n results
Pages(n) == SeqsUpTo(Releases, n)

(***************************************************************************)
(* The release filter of searchDiscogsForAlbums                            *)
(***************************************************************************)
\* outcomes of one HTTP exchange through doRequest: http.Client.Do fails
\* ("transport", log.Fatal), the status is not the expected one ("status",
\* error returned), the body does not decode ("decode"), or success
ReqFailures == {"transport", "status", "decode"}

\* lines 387-394: the style checks; TRUE when the release is not skipped
StyleMatch(result, st) ==
    /\ ~(Len(result.Style) = 1 /\ ~HasSuffix(result.Style[1], st))
    /\ ~(Len(result.Style) > 1 /\ (~HasSuffix(result.Style[1], st) /\ ~HasSuffix(result.Style[2], st)))

ExclusionHitMut(result, excl) ==
    Len(result.Style) >= 1 /\ \E j \in 1..Len(excl) : Contains(result.Style[1], excl[j])

\* lines 397-404: some style tag contains some excluded style
ExclusionHit(result, excl) ==
    \E i \in 1..Len(result.Style) : \E j \in 1..Len(excl) : Contains(result.Style[i], excl[j])

TooFewOwnersMut(have) == have < 9

\* line 406: result.Community.Have < 10
TooFewOwners(have) == have < 10

\* lines 472-479
isReissueOrRemaster(format) ==
    \E i \in 1..Len(format) : format[i] = "Reissue" \/ format[i] = "Remastered"

NeedsMasterMut(result, st, excl) == result.MasterURL # ""

\* the release reaches the master lookup of line 416
NeedsMaster(result, st, excl) ==
    /\ StyleMatch(result, st)
    /\ ~ExclusionHit(result, excl)
    /\ ~TooFewOwners(result.Have)
    /\ ~isReissueOrRemaster(result.Format)
    /\ result.MasterURL # ""

\* outcomes of getMasterReleaseYear (lines 446-470): a failure of the
\* request, or the year of the master as a string
MasterOutcomes(result) ==
    {[fail |-> f, year |-> <<>>] : f \in ReqFailures}
    \cup {[fail |-> "none", year |-> Itoa(MasterYearOf(result.MasterURL))]}

NoMaster == [fail |-> "none", year |-> <<>>]

MasterYearDiffersMut(masterYear, yr) == FALSE

\* line 421: masterYear != year
MasterYearDiffers(masterYear, yr) == masterYear # yr

\* lines 385-425 for one result: where the loop body ends.
\*   "panic"        result.Artist[0] evaluated on an empty artist list (line 388)
\*   "skipStyle"    continue of line 389 or 393
\*   "break"        break RESULTS of line 401: the rest of the page is abandoned
\*   "skipHave"     continue of line 408
\*   "skipReissue"  continue of line 413
\*   "fatal"        log.Fatal in doRequest under getMasterReleaseYear
\*   "error"        return err of line 418
\*   "skipMaster"   continue of line 423
\*   "pass"         the result reaches line 427
FilterVerdict(result, st, yr, excl, master) ==
    IF Len(result.Style) = 1 /\ ~HasSuffix(result.Style[1], st)
    THEN (IF Len(result.Artist) = 0 THEN "panic" ELSE "skipStyle")
    ELSE IF ~StyleMatch(result, st) THEN "skipStyle"
    ELSE IF ExclusionHit(result, excl) THEN "break"
    ELSE IF TooFewOwners(result.Have) THEN "skipHave"
    ELSE IF isReissueOrRemaster(result.Format) THEN "skipReissue"
    ELSE IF result.MasterURL # ""
         THEN (IF master.fail = "transport" THEN "fatal"
               ELSE IF master.fail \in ReqFailures THEN "error"
               ELSE IF MasterYearDiffers(master.year, yr) THEN "skipMaster"
               ELSE "pass")
    ELSE "pass"

(***************************************************************************)
(* addAlbumToSpotifyPlaylist: resolve an album and append its new tracks   *)
(***************************************************************************)
Item(artists, name, date, href) ==
    [Artists |-> artists, Name |-> name, ReleaseDate |-> date, Href |-> href]

\* SpotifySearchResponse.Albums.Items values
SearchItems ==
    { Item(<< <<"a">> >>, <<"b">>, <<"2", "2", "-", "0", "1">>, "h1"),
      Item(<< <<"c">> >>, <<"d">>, <<"2", "2">>, "h2"),
      Item(<< <<"a">> >>, <<"b">>, <<"2", "1">>, "h3"),
      Item(<< >>, <<"b">>, <<"2", "2">>, "h4") }

SearchResponses == SeqsUpTo(SearchItems, 2)

\* lines 288-298: the href of the first item of the wanted year whose first
\* artist and name are similar to the wanted ones, "" when there is none,
\* "panic" when Artists[0] is evaluated on an empty artist list
RECURSIVE FindAlbumUrl(_, _, _, _, _)
FindAlbumUrl(items, k, yr, artistName, albumName) ==
    IF k > Len(items) THEN ""
    ELSE IF yr # <<>> /\ ~HasPrefix(items[k].ReleaseDate, yr)
         THEN FindAlbumUrl(items, k + 1, yr, artistName, albumName)
    ELSE IF Len(items[k].Artists) = 0 THEN "panic"
    ELSE IF areStringsSimilar(items[k].Artists[1], artistName)
            /\ areStringsSimilar(items[k].Name, albumName)
         THEN items[k].Href
    ELSE FindAlbumUrl(items, k + 1, yr, artistName, albumName)

NewTrackUrisMut(tracks, currentTracks) == tracks

NewTrackUrisRev(tracks, currentTracks) ==
    LET New(u) == u \notin currentTracks
        q == SelectSeq(tracks, New)
    IN  [k \in 1..Len(q) |-> q[Len(q) + 1 - k]]

\* lines 321-328: the tracks that are not in currentTracks, in order
RECURSIVE NewTrackUris(_, _)
NewTrackUris(tracks, currentTracks) ==
    IF tracks = <<>> THEN <<>>
    ELSE IF Head(tracks) \in currentTracks THEN NewTrackUris(Tail(tracks), currentTracks)
    ELSE <<Head(tracks)>> \o NewTrackUris(Tail(tracks), currentTracks)

Range(q) == {q[k] : k \in 1..Len(q)}

\* what one call of addAlbumToSpotifyPlaylist did:
\*   step  where the call ended:
\*         "search"    the search request or its decoding failed (267-275)
\*         "noAlbums"  return nil of line 279: the search found no album
\*         "split"     albumParts[1] out of range (line 286)
\*         "match"     Artists[0] out of range (line 294)
\*         "noMatch"   return nil of line 301: no item matched
\*         "tracks"    the track listing or its decoding failed (304-317)
\*         "noNew"     return nil of line 331: no new track
\*         "append"    the append-tracks request was issued (333-352)
\*   res   "nil" (returned no error), "err" (returned an error),
\*         "fatal" (log.Fatal in doRequest), "panic" (index out of range)
\*   tracks  the track list of the album, when it was fetched
\*   sent    whether an append-tracks request was issued, uris what it carried,
\*   ok      whether it was answered 201 Created
Outcome(step, res, tracks, sent, uris, ok) ==
    [step |-> step, res |-> res, tracks |-> tracks, sent |-> sent, uris |-> uris, ok |-> ok]

NoRequest(step, res) == Outcome(step, res, <<>>, FALSE, <<>>, FALSE)

FailureOf(step, f) ==
    IF f = "transport" THEN NoRequest(step, "fatal") ELSE NoRequest(step, "err")

\* lines 341-352: the POST of the new tracks
AppendOutcomes(tracks, trackUris) ==
    { Outcome("append", "fatal", tracks, TRUE, trackUris, FALSE),
      Outcome("append", "err", tracks, TRUE, trackUris, FALSE),
      Outcome("append", "nil", tracks, TRUE, trackUris, TRUE) }

\* lines 304-332: the album's track listing, then the filter on currentTracks
TracksOutcomes(currentTracks) ==
    {FailureOf("tracks", f) : f \in ReqFailures}
    \cup UNION { LET trackUris == NewTrackUris(tracks, currentTracks)
                 IN  IF Len(trackUris) = 0
                     THEN {Outcome("noNew", "nil", tracks, FALSE, <<>>, FALSE)}
                     ELSE AppendOutcomes(tracks, trackUris)
                 : tracks \in TrackLists }

\* lines 276-302 for one decoded search response
ResolveOutcomes(items, title, yr, currentTracks) ==
    IF Len(items) = 0 THEN {NoRequest("noAlbums", "nil")}
    ELSE LET albumParts == Split(title, <<" ", "-", " ">>)
         IN  IF Len(albumParts) < 2 THEN {NoRequest("split", "panic")}
             ELSE LET albumUrl == FindAlbumUrl(items, 1, yr, albumParts[1], albumParts[2])
                  IN  IF albumUrl = "panic" THEN {NoRequest("match", "panic")}
                      ELSE IF albumUrl = "" THEN {NoRequest("noMatch", "nil")}
                      ELSE TracksOutcomes(currentTracks)

\* lines 255-353: every way one call can go, over the answers of the service
addAlbumToSpotifyPlaylist(title, yr, currentTracks) ==
    {FailureOf("search", f) : f \in ReqFailures}
    \cup UNION {ResolveOutcomes(items, title, yr, currentTracks) : items \in SearchResponses}

(***************************************************************************)
(* getLatestAlbumFromBand (file mode)                                      *)
(***************************************************************************)
CharCode(c) == CASE c = " " -> 32 [] c = "-" -> 45 [] c = "0" -> 48 [] c = "1" -> 49
                 [] c = "2" -> 50 [] OTHER -> 97

\* Go's > on strings: bytewise lexicographic order
RECURSIVE StrGreater(_, _)
StrGreater(a, b) ==
    IF a = <<>> THEN FALSE
    ELSE IF b = <<>> THEN TRUE
    ELSE IF CharCode(Head(a)) # CharCode(Head(b)) THEN CharCode(Head(a)) > CharCode(Head(b))
    ELSE StrGreater(Tail(a), Tail(b))

\* lines 176-178: the orders sort.Slice may leave the items in (it is not
\* stable, so items of equal date may end in either order)
SortedByDateDesc(items) ==
    IF Len(items) < 2 THEN {items}
    ELSE {q \in {items, <<items[2], items[1]>>} : ~StrGreater(q[2].ReleaseDate, q[1].ReleaseDate)}

\* lines 182-187 on the sorted items
RECURSIVE FirstSimilarArtist(_, _, _)
FirstSimilarArtist(items, k, artist) ==
    IF k > Len(items) THEN items[1].Name
    ELSE IF Len(items[k].Artists) = 0 THEN <<"panic">>
    ELSE IF areStringsSimilar(items[k].Artists[1], artist) THEN items[k].Name
    ELSE FirstSimilarArtist(items, k + 1, artist)

\* lines 151-188 for one decoded search response: the names it may return
getLatestAlbumFromBand(items, artist) ==
    IF Len(items) = 0 THEN {<<>>}
    ELSE {FirstSimilarArtist(q, 1, artist) : q \in SortedByDateDesc(items)}

\* the band names of the file
BandNames == {<<"a">>, <<"c">>}

(***************************************************************************)
(* State                                                                   *)
(***************************************************************************)
VARIABLES
    mode,               \* "style" (-s/-y) or "file" (-f)
    style,              \* the -s flag
    year,               \* the -y flag
    excludedStyles,     \* s.excludedStyles
    mainPc,             \* where the main goroutine is
    exit,               \* "running", or how the process ended
    killer,             \* the goroutine that ended the process
    snapshot,           \* the URIs getTracksInPlaylist returned
    tracksAlreadySeen,  \* the keys of the map built from the snapshot
    fetched,            \* number of catalog results received so far
    rest,               \* results of the current page not yet iterated
    hasNext,            \* Pagination.Urls.Next of the current page is non-empty
    albumsSeen,         \* keys of albumsSeen
    pending,            \* the Album.Title being sent on albumsToAdd
    cur,                \* the result the loop body ran on last
    verdict,            \* how that loop body ended
    lookedUp,           \* that loop body called getMasterReleaseYear
    failure,            \* the request of the main goroutine that failed, and how
    handed,             \* titles received by the consumer, in order
    cPc,                \* where the consumer goroutine is
    cAlbum,             \* the album it holds
    cI,                 \* its loop variable i
    attempts,           \* calls of addAlbumToSpotifyPlaylist made for cAlbum
    finished,           \* albums whose retry loop has ended
    submittedOk,        \* URIs carried by append requests answered 201
    lastCall,           \* the most recent call of addAlbumToSpotifyPlaylist
    bands               \* file mode: the bands not yet processed

vars == <<mode, style, year, excludedStyles, mainPc, exit, killer, snapshot, tracksAlreadySeen,
          fetched, rest, hasNext, albumsSeen, pending, cur, verdict, handed,
          cPc, cAlbum, cI, attempts, finished, submittedOk, lastCall, bands,
          lookedUp, failure>>

mainVars == <<fetched, rest, hasNext, albumsSeen, pending, cur, verdict, lookedUp>>
consVars == <<cAlbum, cI, attempts, finished, submittedOk, lastCall>>
confVars == <<mode, style, year, excludedStyles>>

NoCall == [n |-> 0, i |-> 0, title |-> <<>>, out |-> NoRequest("none", "none")]
NoRelease == Rel(<<>>, <<>>, <<>>, 0, <<>>, "")
NoFailure == [req |-> "none", kind |-> "none"]

\* line 533: strings.Split(*excludeStyles, ",")
ExcludedStylesOf(flag) == Split(flag, <<",">>)

Init ==
    /\ mode \in {"style", "file"}
    /\ style = StyleArg
    /\ year = YearArg
    /\ excludedStyles \in {ExcludedStylesOf(f) : f \in ExcludeFlags}
    /\ mainPc = "start"
    /\ exit = "running"
    /\ killer = "none"
    /\ snapshot = {}
    /\ tracksAlreadySeen = {}
    /\ fetched = 0
    /\ rest = <<>>
    /\ hasNext = FALSE
    /\ albumsSeen = {}
    /\ pending = <<>>
    /\ cur = NoRelease
    /\ verdict = "none"
    /\ lookedUp = FALSE
    /\ failure = NoFailure
    /\ handed = <<>>
    /\ cPc = "off"
    /\ cAlbum = <<>>
    /\ cI = 0
    /\ attempts = 0
    /\ finished = 0
    /\ submittedOk = {}
    /\ lastCall = NoCall
    /\ bands = <<>>

(***************************************************************************)
(* Actions                                                                 *)
(***************************************************************************)
\* the process ends: log.Fatal, os.Exit(1), a panic, or Run returning
Ends(how, who) == exit' = how /\ killer' = who

RequestFailsMut(req, kind) ==
    /\ failure' = [req |-> req, kind |-> kind]
    /\ IF kind = "transport" THEN Ends("fatal", "main") ELSE UNCHANGED <<exit, killer>>

\* lines 231-246 with 204-207, 374-376, 417-419 and 552-556: a request of the
\* style/year run fails. A transport error is log.Fatal in doRequest; an
\* unexpected status or an undecodable body is an error that every caller
\* returns, up to Run, which prints it and exits with status 1
RequestFails(req, kind) ==
    /\ failure' = [req |-> req, kind |-> kind]
    /\ IF kind = "transport" THEN Ends("fatal", "main") ELSE Ends("error", "main")

\* lines 121-149: a failure of a page request, or the URIs of all pages
PlaylistOutcomes ==
    {[fail |-> f, tracks |-> {}] : f \in ReqFailures}
    \cup {[fail |-> "none", tracks |-> S] : S \in SUBSET URIs}

\* lines 202-227 up to the start of the consumer goroutine
SyncStart ==
    /\ mode = "style" /\ mainPc = "start" /\ exit = "running"
    /\ \E o \in PlaylistOutcomes :
         \/ /\ o.fail \in ReqFailures
            /\ RequestFails("playlist", o.fail)
            /\ UNCHANGED <<mainPc, snapshot, tracksAlreadySeen, cPc>>
         \/ /\ o.fail = "none"
            /\ snapshot' = o.tracks
            /\ tracksAlreadySeen' = o.tracks
            /\ mainPc' = "fetch"
            /\ cPc' = "recv"
            /\ UNCHANGED <<exit, killer, failure>>
    /\ UNCHANGED <<confVars, mainVars, consVars, handed, bands>>

\* lines 362-383: one page of the catalog search
FetchPage ==
    /\ mainPc = "fetch" /\ exit = "running"
    /\ \/ /\ \E f \in ReqFailures : RequestFails("page", f)
          /\ UNCHANGED <<mainPc, fetched, rest, hasNext>>
       \/ /\ \E page \in Pages(MaxResults - fetched), next \in BOOLEAN :
               /\ rest' = page
               /\ fetched' = fetched + Len(page)
               /\ hasNext' = (next /\ page # <<>> /\ fetched + Len(page) < MaxResults)
          /\ mainPc' = "results"
          /\ UNCHANGED <<exit, killer, failure>>
    /\ UNCHANGED <<confVars, snapshot, tracksAlreadySeen, albumsSeen, pending, cur,
                   verdict, lookedUp, handed, cPc, consVars, bands>>

AlreadySeenMut(title, seen) == FALSE

\* line 429: albumsSeen[title]
AlreadySeen(title, seen) == title \in seen

\* lines 427-435 and the continue/break of the loop: what the results loop
\* does after the verdict on Head(rest)
AfterVerdict(v, title, master) ==
    CASE v = "panic" ->
           /\ Ends("panic", "main")
           /\ UNCHANGED <<mainPc, rest, pending, failure>>
      [] v \in {"fatal", "error"} ->
           /\ RequestFails("master", master.fail)
           /\ UNCHANGED <<mainPc, rest, pending>>
      [] v = "break" ->
           /\ rest' = <<>>
           /\ UNCHANGED <<mainPc, pending, exit, killer, failure>>
      [] v = "pass" /\ ~AlreadySeen(title, albumsSeen) ->
           /\ rest' = Tail(rest)
           /\ pending' = title
           /\ mainPc' = "send"
           /\ UNCHANGED <<exit, killer, failure>>
      [] OTHER ->
           /\ rest' = Tail(rest)
           /\ UNCHANGED <<mainPc, pending, exit, killer, failure>>

\* lines 385-430: the loop body on the next result, up to the channel send
ProcessResult ==
    /\ mainPc = "results" /\ exit = "running" /\ rest # <<>>
    /\ LET result == Head(rest)
       IN  \E master \in (IF NeedsMaster(result, style, excludedStyles)
                          THEN MasterOutcomes(result) ELSE {NoMaster}) :
             LET v == FilterVerdict(result, style, year, excludedStyles, master)
             IN  /\ cur' = result
                 /\ verdict' = v
                 /\ lookedUp' = NeedsMaster(result, style, excludedStyles)
                 /\ AfterVerdict(v, NormalizeTitle(result.Title), master)
    /\ UNCHANGED <<confVars, snapshot, tracksAlreadySeen, fetched, hasNext, albumsSeen,
                   handed, cPc, consVars, bands>>

ConsumerReadyMut(pc) == pc \in {"recv", "sleep"}

\* lines 216-226: the goroutine receives from albumsToAdd only at the head of
\* its range loop, after the retry loop of the previous album has ended
ConsumerReady(pc) == pc = "recv"

\* lines 431-434 and 216: the send on the unbuffered channel albumsToAdd
\* completes when the consumer is at its receive
Handoff ==
    /\ mainPc = "send" /\ ConsumerReady(cPc) /\ exit = "running"
    /\ handed' = Append(handed, pending)
    /\ cAlbum' = pending
    /\ cI' = 0
    /\ attempts' = 0
    /\ cPc' = "call"
    /\ albumsSeen' = albumsSeen \cup {pending}
    /\ mainPc' = "results"
    /\ UNCHANGED <<confVars, exit, killer, snapshot, tracksAlreadySeen, fetched, rest,
                   hasNext, pending, cur, verdict, lookedUp, failure, finished,
                   submittedOk, lastCall, bands>>

\* lines 437-443: the end of a page
PageEnd ==
    /\ mainPc = "results" /\ exit = "running" /\ rest = <<>>
    /\ mainPc' = (IF hasNext THEN "fetch" ELSE "returned")
    /\ UNCHANGED <<confVars, failure, exit, killer, snapshot, tracksAlreadySeen, mainVars, handed,
                   cPc, consVars, bands>>

\* lines 228 and 552-557: searchDiscogsForAlbums returned nil, so does
\* syncSpotifyPlaylist, and Run returns
RunReturns ==
    /\ mainPc = "returned" /\ exit = "running"
    /\ Ends("ok", "main")
    /\ UNCHANGED <<confVars, failure, mainPc, snapshot, tracksAlreadySeen, mainVars, handed,
                   cPc, consVars, bands>>

RetryContinuesMut(i) == i < 4

\* line 217: the condition of the retry loop
RetryContinues(i) == i < 3

StopsRetryingMut(res) == FALSE

\* lines 219-221: the loop is left on the first call that returns no error
StopsRetrying(res) == res = "nil"

\* the record of a call and its effect on the playlist of the service;
\* the map currentTracks is only read by addAlbumToSpotifyPlaylist
Called(n, i, title, o) ==
    /\ lastCall' = [n |-> n, i |-> i, title |-> title, out |-> o]
    /\ submittedOk' = (IF o.ok THEN submittedOk \cup Range(o.uris) ELSE submittedOk)
    /\ tracksAlreadySeen' = tracksAlreadySeen

\* lines 217-225: one iteration of the retry loop, up to the sleep
Attempt ==
    /\ cPc = "call" /\ exit = "running"
    /\ \E o \in addAlbumToSpotifyPlaylist(cAlbum, year, tracksAlreadySeen) :
         /\ Called(Len(handed), cI, cAlbum, o)
         /\ attempts' = attempts + 1
         /\ CASE o.res = "fatal" ->
                   /\ Ends("fatal", "consumer")
                   /\ UNCHANGED <<cPc, finished>>
              [] o.res = "panic" ->
                   /\ Ends("panic", "consumer")
                   /\ UNCHANGED <<cPc, finished>>
              [] StopsRetrying(o.res) ->
                   /\ cPc' = "recv"
                   /\ finished' = finished + 1
                   /\ UNCHANGED <<exit, killer>>
              [] OTHER ->
                   /\ cPc' = "sleep"
                   /\ UNCHANGED <<finished, exit, killer>>
    /\ UNCHANGED <<confVars, failure, mainPc, snapshot, mainVars, handed, cAlbum, cI, bands>>

\* lines 224-225 and 217: the sleep ends, i++, and the loop goes on or ends
Wake ==
    /\ cPc = "sleep" /\ exit = "running"
    /\ cI' = cI + 1
    /\ IF RetryContinues(cI + 1)
       THEN cPc' = "call" /\ finished' = finished
       ELSE cPc' = "recv" /\ finished' = finished + 1
    /\ UNCHANGED <<confVars, failure, mainPc, exit, killer, snapshot, tracksAlreadySeen, mainVars,
                   handed, cAlbum, attempts, submittedOk, lastCall, bands>>

\* lines 495-509 (and 541-543: an error returned to Run is log.Fatal there)
FileStart ==
    /\ mode = "file" /\ mainPc = "start" /\ exit = "running"
    /\ \/ /\ Ends("fatal", "main")
          /\ UNCHANGED <<mainPc, snapshot, tracksAlreadySeen, bands>>
       \/ /\ \E b \in SeqsUpTo(BandNames, MaxBands), S \in SUBSET URIs :
               /\ bands' = b
               /\ snapshot' = S
               /\ tracksAlreadySeen' = S
          /\ mainPc' = "bands"
          /\ UNCHANGED <<exit, killer>>
    /\ UNCHANGED <<confVars, failure, mainVars, handed, cPc, consVars>>

\* lines 510-516 with 194-200: the latest album of one band is added; any
\* failure is log.Fatal
FileBand ==
    /\ mode = "file" /\ mainPc = "bands" /\ exit = "running" /\ bands # <<>>
    /\ LET band == Head(bands)
       IN  \/ /\ Ends("fatal", "main")
              /\ UNCHANGED <<bands, finished, lastCall, submittedOk, tracksAlreadySeen>>
           \/ \E items \in SearchResponses :
                \E latest \in getLatestAlbumFromBand(items, band) :
                  IF latest = <<"panic">>
                  THEN /\ Ends("panic", "main")
                       /\ UNCHANGED <<bands, finished, lastCall, submittedOk, tracksAlreadySeen>>
                  ELSE \E o \in addAlbumToSpotifyPlaylist(band \o <<" ", "-", " ">> \o latest,
                                                          <<>>, tracksAlreadySeen) :
                         /\ Called(finished + 1, 0, band \o <<" ", "-", " ">> \o latest, o)
                         /\ CASE o.res = "panic" ->
                                   /\ Ends("panic", "main")
                                   /\ UNCHANGED <<bands, finished>>
                              [] o.res = "nil" ->
                                   /\ bands' = Tail(bands)
                                   /\ finished' = finished + 1
                                   /\ UNCHANGED <<exit, killer>>
                              [] OTHER ->
                                   /\ Ends("fatal", "main")
                                   /\ UNCHANGED <<bands, finished>>
    /\ UNCHANGED <<confVars, failure, mainPc, snapshot, mainVars, handed, cPc, cAlbum, cI, attempts>>

\* lines 517 and 541-544: every band is done and Run returns
FileDone ==
    /\ mode = "file" /\ mainPc = "bands" /\ exit = "running" /\ bands = <<>>
    /\ Ends("ok", "main")
    /\ UNCHANGED <<confVars, failure, mainPc, snapshot, tracksAlreadySeen, mainVars, handed, cPc,
                   consVars, bands>>

Next ==
    \/ SyncStart
    \/ FetchPage
    \/ ProcessResult
    \/ Handoff
    \/ PageEnd
    \/ RunReturns
    \/ Attempt
    \/ Wake
    \/ FileStart
    \/ FileBand
    \/ FileDone

Spec == Init /\ [][Next]_vars

(***************************************************************************)
(* The release filter on its own: the results loop on a page of one        *)
(* result, over a wider range of releases and flags                        *)
(***************************************************************************)
MaxStyles == 3

Tags == {<<"d">>, <<"x", "d">>, <<"d", "x">>, <<"y", "s">>}

FilterReleases ==
    { Rel(<<"a", " ", "-", " ", "b">>, artist, st, have, format, masterURL) :
        artist \in {<<>>, <<"a">>},
        st \in SeqsUpTo(Tags, MaxStyles),
        have \in {9, 10},
        format \in {<<"Album">>, <<"Album", "Reissue">>, <<"Remastered">>},
        masterURL \in {"", "m1", "m2"} }

InitFilter ==
    /\ mode = "style"
    /\ style \in {<<"d">>, <<"x", "d">>}
    /\ year = YearArg
    /\ excludedStyles \in {ExcludedStylesOf(f) : f \in ExcludeFlags}
    /\ mainPc = "results"
    /\ exit = "running"
    /\ killer = "none"
    /\ snapshot = {}
    /\ tracksAlreadySeen = {}
    /\ fetched = 1
    /\ rest \in {<<r>> : r \in FilterReleases}
    /\ hasNext = FALSE
    /\ albumsSeen = {}
    /\ pending = <<>>
    /\ cur = NoRelease
    /\ verdict = "none"
    /\ lookedUp = FALSE
    /\ failure = NoFailure
    /\ handed = <<>>
    /\ cPc = "recv"
    /\ cAlbum = <<>>
    /\ cI = 0
    /\ attempts = 0
    /\ finished = 0
    /\ submittedOk = {}
    /\ lastCall = NoCall
    /\ bands = <<>>

NextFilter == ProcessResult

SpecFilter == InitFilter /\ [][NextFilter]_vars

(***************************************************************************)
(* Title normalisation on its own: the results loop on a page of one       *)
(* release that passes every predicate, over a range of titles             *)
(***************************************************************************)
MaxParts == 4

TitleParts == {<<"a">>, <<"1">>, <<" ", "(">>, <<")">>, <<" ", "(", "2", ")">>}

RECURSIVE Concat(_)
Concat(parts) == IF parts = <<>> THEN <<>> ELSE Head(parts) \o Concat(Tail(parts))

Titles == {Concat(parts) : parts \in SeqsUpTo(TitleParts, MaxParts)}

InitNorm ==
    /\ mode = "style"
    /\ style = StyleArg
    /\ year = YearArg
    /\ excludedStyles = ExcludedStylesOf(<<"s">>)
    /\ mainPc = "results"
    /\ exit = "running"
    /\ killer = "none"
    /\ snapshot = {}
    /\ tracksAlreadySeen = {}
    /\ fetched = 1
    /\ rest \in {<<Rel(t, <<"a">>, <<StyleArg>>, 10, <<"Album">>, "")>> : t \in Titles}
    /\ hasNext = FALSE
    /\ albumsSeen = {}
    /\ pending = <<>>
    /\ cur = NoRelease
    /\ verdict = "none"
    /\ lookedUp = FALSE
    /\ failure = NoFailure
    /\ handed = <<>>
    /\ cPc = "recv"
    /\ cAlbum = <<>>
    /\ cI = 0
    /\ attempts = 0
    /\ finished = 0
    /\ submittedOk = {}
    /\ lastCall = NoCall
    /\ bands = <<>>

NextNorm == ProcessResult

SpecNorm == InitNorm /\ [][NextNorm]_vars

(***************************************************************************)
(* Properties                                                              *)
(***************************************************************************)
\* some style tag of the release contains one of the excluded substrings
HasExcludedStyle(result, excl) ==
    \E tag \in Range(result.Style) : \E e \in Range(excl) : Contains(tag, e)

\* the tag ends with the string st
EndsWith(tag, st) == \E k \in 0..Len(tag) : SubSeq(tag, k + 1, Len(tag)) = st

\* the release satisfies the five predicates of the release filter
PassesAllPredicates(result) ==
    /\ StyleMatch(result, style)
    /\ ~HasExcludedStyle(result, excludedStyles)
    /\ result.Have >= 10
    /\ ~isReissueOrRemaster(result.Format)
    /\ result.MasterURL # "" => Itoa(MasterYearOf(result.MasterURL)) = year

\* C1: once an append-tracks request carrying URI u has succeeded, no later
\* call of addAlbumToSpotifyPlaylist in the same run (style/year or file
\* mode) submits u again.
C1_NoResubmission ==
    [][(lastCall' # lastCall /\ lastCall'.out.sent)
         => Range(lastCall'.out.uris) \cap submittedOk = {}]_vars

\* C2: no append-tracks request carries a URI of the playlist snapshot
\* fetched at the start of the run.
C2_NoSnapshotUri ==
    lastCall.out.sent => Range(lastCall.out.uris) \cap snapshot = {}

\* an append-tracks request was issued for an album one of whose tracks was
\* in the snapshot
C2_Witness ==
    /\ lastCall.out.sent
    /\ Range(lastCall.out.tracks) \cap snapshot # {}

\* C3: a style/year run is Done (Run has returned) only when discovery has
\* ended and every album handed to the consumer has had its resolve+append
\* step finished.
C3_DoneOnlyWhenAllProcessed ==
    (mode = "style" /\ exit = "ok")
        => (mainPc = "returned" /\ cPc = "recv" /\ finished = Len(handed))

\* C4: the retry policy of the consumer: at most 3 attempts per album, no
\* attempt after one that returned no error, a third attempt that succeeds
\* has its tracks appended, and after a third failure the album is dropped
\* and the consumer returns to its receive.
C4_RetryPolicy ==
    /\ attempts <= 3
    /\ (exit = "running" /\ cPc = "call") => attempts < 3
    /\ (exit = "running" /\ cPc = "call" /\ attempts > 0)
          => (lastCall.n = Len(handed) /\ lastCall.out.res = "err")
    /\ cPc = "sleep" => (lastCall.n = Len(handed) /\ lastCall.out.res = "err")
    /\ (mode = "style" /\ lastCall.out.res = "nil" /\ lastCall.out.sent)
          => Range(lastCall.out.uris) \subseteq submittedOk
    /\ (mode = "style" /\ cPc = "recv") => finished = Len(handed)

\* an album failed twice and its third attempt appended its tracks
C4_Witness ==
    /\ mode = "style"
    /\ attempts = 3
    /\ lastCall.i = 2
    /\ lastCall.out.res = "nil"
    /\ lastCall.out.ok
    /\ cPc = "recv"

\* C5: in style/year mode no failure of a request made by an album's
\* resolve+append step terminates the run.
C5_AlbumFailureNeverFatal ==
    ~(mode = "style" /\ exit = "fatal" /\ killer = "consumer")

\* C6: handing a candidate album to the consumer completes without delay:
\* the producer is never at its send while the consumer is busy.
C6_HandoffNeverWaits ==
    (mainPc = "send" /\ exit = "running") => cPc = "recv"

\* C7: every release on a page that passes the five predicates has its
\* normalized title forwarded unless that title was already seen, whatever
\* happened to the releases before it on the page.
C7_FilterPerRelease ==
    [][(mainPc = "results" /\ exit' = "running" /\ Len(rest') < Len(rest))
         => \A k \in 1..(Len(rest) - Len(rest')) :
              (PassesAllPredicates(rest[k]) /\ NormalizeTitle(rest[k].Title) \notin albumsSeen)
                 => (mainPc' = "send" /\ pending' = NormalizeTitle(rest[k].Title))]_vars

\* C8: a release one of whose style tags contains an excluded-style
\* substring is never forwarded as a candidate.
C8_ExcludedNeverForwarded ==
    /\ mainPc = "send" => ~HasExcludedStyle(cur, excludedStyles)
    /\ verdict = "pass" => ~HasExcludedStyle(cur, excludedStyles)

\* a release with an excluded style tag that matches the target style went
\* through the loop body
C8_Witness ==
    /\ verdict = "break"
    /\ HasExcludedStyle(cur, excludedStyles)
    /\ excludedStyles = << <<"s">> >>
    /\ StyleMatch(cur, style)

\* C9: a title is handed to the consumer at most once, and a release that
\* passes the filter is handed over exactly when its normalized title has
\* not been seen before.
C9_Dedup ==
    /\ \A i, j \in 1..Len(handed) : i # j => handed[i] # handed[j]
    /\ albumsSeen = Range(handed)
    /\ verdict = "pass" =>
          LET title == NormalizeTitle(cur.Title)
          IN  IF mainPc = "send" THEN pending = title /\ title \notin albumsSeen
              ELSE title \in albumsSeen

\* a second release passed the filter with a title already handed over and
\* was not handed over
C9_Witness ==
    /\ verdict = "pass"
    /\ mainPc = "results"
    /\ Len(handed) >= 2
    /\ NormalizeTitle(cur.Title) = handed[1]

\* C10: a release with exactly one style tag passes the style match iff
\* that tag ends with the target style.
C10_OneTagStyleMatch ==
    (verdict # "none" /\ Len(cur.Style) = 1)
        => ((verdict \notin {"skipStyle", "panic"}) <=> EndsWith(cur.Style[1], style))

\* a one-tag release whose tag contains the target style, but not at its
\* end, was skipped by the style match
C10_Witness ==
    /\ verdict = "skipStyle"
    /\ Len(cur.Style) = 1
    /\ Contains(cur.Style[1], style)

\* C11: a release owned by fewer than 10 is never forwarded as a candidate,
\* whatever its styles, formats and master year.
C11_FewOwnersNeverForwarded ==
    /\ mainPc = "send" => cur.Have >= 10
    /\ verdict = "pass" => cur.Have >= 10

\* a release owned by 9 that passes the style and exclusion predicates was
\* skipped at the popularity threshold
C11_Witness ==
    /\ verdict = "skipHave"
    /\ cur.Have = 9
    /\ mainPc = "results"

\* C12: title normalisation is idempotent: normalising the normalised title
\* of a forwarded candidate yields the same title again, also when the
\* removal of one occurrence joins the text around it into a new occurrence.
C12_NormalizeIdempotent ==
    mainPc = "send" => NormalizeTitle(pending) = pending

\* C13: in a style/year run a catalog page fetch, a master-year lookup or the
\* initial playlist fetch that fails with an unexpected status or an
\* undecodable body ends the run with that error: the request is not
\* retried, no further page is fetched, no further candidate is handed over.
C13_RequestFailureAborts ==
    /\ [](failure.kind \in {"status", "decode"}
            => /\ mode = "style"
               /\ exit = "error" /\ killer = "main"
               /\ mainPc # "send")
    /\ [][failure.kind \in {"status", "decode"}
            => UNCHANGED <<failure, fetched, cur, lookedUp, handed>>]_vars

\* a master-year lookup failed on a bad status after a candidate had been
\* handed over and while a further page was still to be fetched
C13_Witness ==
    /\ failure = [req |-> "master", kind |-> "status"]
    /\ exit = "error"
    /\ Len(handed) >= 1
    /\ hasNext

\* C14: the consumer processes albums one at a time and in discovery order:
\* every call for an album is made after the retry loop of the album before
\* it has ended, calls are made for the albums in the order in which they
\* were discovered, and so are the append requests they carry.
C14_OneAtATimeInOrder ==
    /\ [](mode = "style"
            => /\ cPc \in {"call", "sleep"}
                    => finished = Len(handed) - 1 /\ cAlbum = handed[Len(handed)]
               /\ cPc = "recv" => finished = Len(handed))
    /\ [][(mode = "style" /\ handed' # handed) => handed' = Append(handed, pending)]_vars
    /\ [][(mode = "style" /\ lastCall' # lastCall)
            => /\ lastCall'.n = Len(handed) /\ lastCall'.title = handed[Len(handed)]
               /\ lastCall'.n >= lastCall.n
               /\ finished = lastCall'.n - 1]_vars

\* the second album handed over is on its second attempt
C14_Witness ==
    /\ mode = "style"
    /\ lastCall.n = 2 /\ lastCall.i = 1
    /\ handed[1] # handed[2]

\* C15: with the -E flag omitted the exclusion predicate rejects no release:
\* every release that passes the style match, is owned by at least 10, is
\* not a reissue or remaster and is consistent with its master year is
\* forwarded.
C15_NothingExcludedWithoutFlag ==
    (/\ excludedStyles = ExcludedStylesOf(<<>>)
     /\ verdict # "none" /\ exit = "running"
     /\ StyleMatch(cur, style)
     /\ cur.Have >= 10
     /\ ~isReissueOrRemaster(cur.Format)
     /\ cur.MasterURL # "" => Itoa(MasterYearOf(cur.MasterURL)) = year)
    => verdict = "pass" /\ mainPc = "send"

\* C16: one call of addAlbumToSpotifyPlaylist that fetched the track list T
\* with the already-present set S issues at most one append request; when
\* some URI of T is not in S the request carries exactly the URIs of T that
\* are not in S, in track-list order; when every URI of T is in S no request
\* is issued and the call returns success.
C16_AppendCarriesExactlyNewTracks ==
    LET T == lastCall.out.tracks
        S == tracksAlreadySeen
        NotInS(u) == u \notin S
        fetchedT == lastCall.out.step \in {"noNew", "append"}
    IN  /\ lastCall.out.sent => fetchedT
        /\ (fetchedT /\ Range(T) \subseteq S)
              => ~lastCall.out.sent /\ lastCall.out.res = "nil"
        /\ (fetchedT /\ ~(Range(T) \subseteq S))
              => lastCall.out.sent /\ lastCall.out.uris = SelectSeq(T, NotInS)

\* an album of two tracks, the first of them in the playlist already: the
\* request carried the second only
C16_Witness ==
    /\ lastCall.out.tracks = <<"u1", "u2">>
    /\ tracksAlreadySeen = {"u1"}
    /\ lastCall.out.sent /\ lastCall.out.uris = <<"u2">>

\* C17: a candidate for which the search returns no album, or no album of the
\* target year with a similar artist and name, is skipped: the call returns
\* success without fetching a track list or appending, and in a style/year
\* run the consumer ends the album's retry loop on that call, with no retry
\* and no sleep (one attempt when it was the first call for the album).
C17_NoEquivalentIsSkip ==
    lastCall.out.step \in {"noAlbums", "noMatch"}
    => /\ lastCall.out.res = "nil"
       /\ ~lastCall.out.sent /\ lastCall.out.tracks = <<>> /\ lastCall.out.uris = <<>>
       /\ (mode = "style" /\ lastCall.n = Len(handed))
            => /\ cPc = "recv"
               /\ finished = Len(handed)
               /\ attempts = lastCall.i + 1
               /\ lastCall.i = 0 => attempts = 1

\* the first call for an album found albums but none that matches
C17_Witness ==
    /\ mode = "style"
    /\ lastCall.out.step = "noMatch"
    /\ lastCall.n = Len(handed) /\ lastCall.i = 0
    /\ cPc = "recv" /\ attempts = 1

\* C18: a release passes the style match only if its style list holds at
\* least one tag that ends with the target style; a release with an empty
\* style list is rejected by the style match and never forwarded.
C18_StyleMatchNeedsMatchingTag ==
    /\ verdict \notin {"none", "panic", "skipStyle"}
         => \E tag \in Range(cur.Style) : EndsWith(tag, style)
    /\ mainPc = "send" => cur.Style # <<>>

\* the release satisfies the first four predicates of the release filter
PassesFirstFour(result) ==
    /\ StyleMatch(result, style)
    /\ ~HasExcludedStyle(result, excludedStyles)
    /\ result.Have >= 10
    /\ ~isReissueOrRemaster(result.Format)

\* C19: for a release that has a master reference and passes the first four
\* predicates the master's year is fetched, and the release is forwarded
\* only if that year equals the target year; with a differing master year
\* it is never forwarded.
C19_MasterYearDecides ==
    (verdict # "none" /\ PassesFirstFour(cur) /\ cur.MasterURL # "")
    => /\ lookedUp
       /\ mainPc = "send" => Itoa(MasterYearOf(cur.MasterURL)) = year
       /\ Itoa(MasterYearOf(cur.MasterURL)) # year
            => verdict \in {"skipMaster", "error", "fatal"} /\ mainPc # "send"

\* a release that passes the first four predicates was dropped on the year
\* of its master
C19_Witness ==
    /\ verdict = "skipMaster" /\ lookedUp
    /\ PassesFirstFour(cur)
    /\ cur.MasterURL = "m2"

\* C20: the predicates run in the order style, exclusion, popularity,
\* pressing, master year and stop at the first that fails: a master lookup
\* is issued only for a release that passed the four earlier predicates,
\* never for one that one of them rejected.
C20_FixedPredicateOrder ==
    /\ lookedUp => PassesFirstFour(cur) /\ cur.MasterURL # ""
    /\ verdict = "skipStyle" => ~StyleMatch(cur, style) /\ ~lookedUp
    /\ verdict = "break"
         => StyleMatch(cur, style) /\ HasExcludedStyle(cur, excludedStyles) /\ ~lookedUp
    /\ verdict = "skipHave"
         => /\ StyleMatch(cur, style) /\ ~HasExcludedStyle(cur, excludedStyles)
            /\ cur.Have < 10 /\ ~lookedUp
    /\ verdict = "skipReissue"
         => /\ StyleMatch(cur, style) /\ ~HasExcludedStyle(cur, excludedStyles)
            /\ cur.Have >= 10 /\ isReissueOrRemaster(cur.Format) /\ ~lookedUp
    /\ verdict \in {"skipMaster", "error", "fatal"} => PassesFirstFour(cur) /\ lookedUp

\* a reissue with a master reference was rejected by the pressing predicate
\* and no lookup was made for it
C20_Witness ==
    /\ verdict = "skipReissue"
    /\ cur.MasterURL = "m2"
    /\ ~lookedUp

\* C21: no call of addAlbumToSpotifyPlaylist ends in an out-of-range index,
\* whatever the shape of the title and of a non-empty search response: the
\* call returns success or an error.
C21_NoCrashOnDataShape ==
    /\ lastCall.out.res # "panic"
    /\ lastCall.out.step \notin {"split", "match"}

====
